---- MODULE Spec2Model ----
(***************************************************************************)
(* The Dashboard controller of static/js/custom.js as a state machine.     *)
(*                                                                         *)
(* The state is the part of the DOM the controller reads and writes, its   *)
(* timers, and the network: how many requests of each kind it has issued   *)
(* (issued) and the requests whose promise is still pending (inflight),    *)
(* each numbered in the order of issue.  An async method is two actions: the synchronous part up to *)
(* its await of fetch (named after the method), and the continuation that  *)
(* runs when the promise settles (named <method>Resume).  The outcome of a *)
(* request is the environment's choice: the payload of a JSON response, or *)
(* a rejection (transport failure, or a body that is not JSON).            *)
(*                                                                         *)
(* Time is in milliseconds.  A timer holds its deadline; time never passes *)
(* a deadline before the timer's callback has run.                         *)
(*                                                                         *)
(* ev is an observation of the step taken last (which handler ran, for     *)
(* which request, with which outcome); no handler reads it.                *)
(***************************************************************************)
EXTENDS Integers, Sequences, FiniteSets, TLC

VARIABLES
    phase,          \* "loading" (before DOMContentLoaded), "live", "unloaded" (reloaded)
    now,            \* the clock, ms since construction
    elems,          \* ids of the singleton elements present in the document
    cartBadge,      \* #cart-badge: [text, display]
    cartTotal,      \* #cart-total: its text
    qtyText,        \* [data-quantity-for=i]: item -> text, for the items that have one
    cartItems,      \* [data-cart-item=i]: the items that have a node
    loading,        \* #loading-indicator: [display, message]
    toasts,         \* the toasts the step taken last has shown, in order
    inputValue,     \* #menu-search: its value
    searchTimeout,  \* deadline of the debounce timer, or NoTimer
    searchPanel,    \* #search-results: [hidden, content]
    notifBadge,     \* #notification-badge: [text, display]
    notifMenu,      \* #notification-menu: the notifications it lists
    statText,       \* #stat-<key>: key -> text, for the keys that have an element
    pollTimer,      \* deadline of the next setInterval tick, or NoTimer
    reloadTimers,   \* deadlines of the pending reload timeouts
    toastContainer, \* whether #toast-container exists
    csrfField,      \* value of [name=csrfmiddlewaretoken], or Undefined
    csrfMeta,       \* content of meta[name="csrf-token"], or Undefined
    issued,         \* kind -> the number of requests of that kind issued so far
    inflight,       \* the requests still pending, each with its place in the order of issue
    lastInput,      \* an observation no handler reads: when the last input event
                    \* came, and how many searches had been issued by then
    gestures,       \* user gestures handled so far
    lastFired,      \* an observation no handler reads: the query searchMenu was
                    \* called with last, its request, and who wrote the panel last
    serverCart,     \* the server's side of the cart: [count, since], the number of
                    \* items it holds and how many requests the page had issued
                    \* when that number last changed
    ev              \* the step taken last

vars == <<phase, now, elems, cartBadge, cartTotal, qtyText, cartItems, loading,
          toasts, inputValue, searchTimeout, searchPanel, notifBadge, notifMenu,
          statText, pollTimer, reloadTimers, toastContainer, csrfField, csrfMeta,
          issued, inflight, lastInput, gestures, lastFired, serverCart, ev>>

pageVars   == <<phase, elems, csrfField, csrfMeta>>
cartVars   == <<cartBadge, cartTotal, qtyText, cartItems>>
searchVars == <<inputValue, searchTimeout, searchPanel>>
pollVars   == <<notifBadge, notifMenu, statText>>
toastVars  == <<toasts, toastContainer>>
netVars    == <<issued, inflight>>

-----------------------------------------------------------------------------
(* Bounds of the model *)

\* user gestures that reach a handler (clicks, changes, input events)
MaxGestures == 2
\* ticks of the polling interval
MaxTicks == 1
\* largest count or quantity a response carries
MaxCount == 1

(* Program constants *)

\* setTimeout(..., 300) of the search box
SearchDelay == 300
\* setTimeout(() => window.location.reload(), 1000)
ReloadDelay == 1000
\* setInterval(..., 30000)
PollInterval == 30000
\* query.length < 2
MinQueryLen == 2

\* granularity at which the model lets time pass between two deadlines
Quantum == SearchDelay \div 3

NoTimer == -1

Items   == {"i1", "i2"}
Orders  == {"o1"}
Statuses == {"ready"}
Counts  == 0 .. MaxCount
\* the amounts a response carries as cart_total
Totals  == {0, MaxCount}
Queries == {"", "p", "pi"}
StatKeys == {"pending", "total"}

\* the server's message field: absent, empty, or a text
Undefined == "<undefined>"
Messages == {Undefined, "", "Out of stock"}

CartKinds  == {"add", "update", "remove"}
OrderKinds == {"status", "cancel"}
PostKinds  == CartKinds \cup OrderKinds
GetKinds   == {"search", "count", "notifications", "stats"}

-----------------------------------------------------------------------------
(* JavaScript's values *)

\* (mutant) the fallback alone
OrElseFallback(a, b) == b

\* a || b on strings: undefined and "" are falsy
OrElse(a, b) == IF a \in {Undefined, ""} THEN b ELSE a

\* (mutant) count >= 0 ? 'inline' : 'none'
DisplayForNotNegative(count) == IF count >= 0 THEN "inline" ELSE "none"

\* count > 0 ? 'inline' : 'none'
DisplayFor(count) == IF count > 0 THEN "inline" ELSE "none"

\* `${total} XAF`
TotalText(total) == <<total, "XAF">>

Min(S) == CHOOSE x \in S : \A y \in S : x <= y

-----------------------------------------------------------------------------
(* The network *)

NoArg == "-"

\* (mutant) getCSRFToken reading the hidden field only
getCSRFTokenFieldOnly == OrElse(csrfField, "")

\* getCSRFToken(): the hidden field's value, else the meta tag's content, else ''
getCSRFToken == OrElse(csrfField, OrElse(csrfMeta, ""))

\* a POST carries the X-CSRFToken header; a GET carries none
Post(kind, arg, extra) ==
    [kind |-> kind, arg |-> arg, extra |-> extra, csrf |-> getCSRFToken]
Get(kind, arg) ==
    [kind |-> kind, arg |-> arg, extra |-> NoArg, csrf |-> Undefined]

Kinds == {"add", "update", "remove", "status", "cancel",
          "search", "count", "notifications", "stats"}

\* the number of requests issued so far
Sent == issued["add"] + issued["update"] + issued["remove"] + issued["status"]
        + issued["cancel"] + issued["search"] + issued["count"]
        + issued["notifications"] + issued["stats"]

\* fetch(...): the requests a handler issues, in order; their promises are pending
Issue(reqs) ==
    /\ issued' = [k \in Kinds |->
                    issued[k] + Cardinality({n \in DOMAIN reqs : reqs[n].kind = k})]
    /\ inflight' = inflight \cup
                    {[id |-> Sent + n, kind |-> reqs[n].kind, arg |-> reqs[n].arg,
                      extra |-> reqs[n].extra, csrf |-> reqs[n].csrf] : n \in DOMAIN reqs}

\* the promise of request r settles
Settle(r) ==
    /\ inflight' = inflight \ {r}
    /\ issued' = issued

Pending(kind) == {r \in inflight : r.kind = kind}

(* The payloads a server may answer with, and "throw": fetch rejects, or the *)
(* body is not JSON and response.json() rejects                             *)

CartResponses ==
    [outcome : {"ok"}, message : {Undefined}, cart_count : Counts,
     cart_total : Totals, new_quantity : Counts]
    \cup [outcome : {"fail"}, message : Messages, cart_count : {0},
          cart_total : {0}, new_quantity : {0}]
    \cup [outcome : {"throw"}, message : {Undefined}, cart_count : {0},
          cart_total : {0}, new_quantity : {0}]

\* cart/add/ answers success, message, cart_count only
AddResponses == {r \in CartResponses : r.cart_total = 0 /\ r.new_quantity = 0}

\* cart/remove/ answers success, message, cart_count, cart_total
RemoveResponses == {r \in CartResponses : r.new_quantity = 0}

OrderResponses ==
    [outcome : {"ok"}, message : {Undefined}]
    \cup [outcome : {"fail"}, message : Messages]
    \cup [outcome : {"throw"}, message : {Undefined}]

CountResponses ==
    [outcome : {"ok"}, count : Counts] \cup [outcome : {"throw"}, count : {0}]

ItemLists == {<<>>, <<"i1">>, <<"i2", "i1">>}
SearchResponses ==
    [outcome : {"ok"}, items : ItemLists] \cup [outcome : {"throw"}, items : {<<>>}]

NotificationLists == {<<>>, <<"n1">>, <<"n2", "n1">>}
NotificationResponses ==
    [outcome : {"ok"}, notifications : NotificationLists]
    \cup [outcome : {"throw"}, notifications : {<<>>}]

StatMaps == {[k \in {"pending"} |-> 1], [k \in {"total"} |-> 2],
             [k \in StatKeys |-> 0]}
StatResponses ==
    [outcome : {"ok"}, stats : StatMaps]
    \cup [outcome : {"throw"}, stats : {[k \in {} |-> 0]}]

NoRes == [outcome |-> "none"]
Event(op, req, res) == [op |-> op, req |-> req, res |-> res]

-----------------------------------------------------------------------------
(* The DOM helpers *)

\* showLoading(message): creates #loading-indicator if need be, and shows it
showLoading(message) ==
    loading' = [present |-> TRUE, display |-> "block", message |-> message]

\* hideLoading(): hides #loading-indicator if it exists
hideLoading ==
    loading' = IF loading.present THEN [loading EXCEPT !.display = "none"]
               ELSE loading

\* showToast(message, type): creates #toast-container if need be, appends a
\* toast element to it and shows it.  No handler calls it twice.
showToast(message, type) ==
    /\ toastContainer' = TRUE
    /\ toasts' = <<[message |-> message, type |-> type]>>

\* a handler that shows no toast
noToast ==
    /\ toastContainer' = toastContainer
    /\ toasts' = <<>>

\* updateCartBadge(count), count not null
updateCartBadge(count) ==
    cartBadge' = IF "cart-badge" \in elems
                 THEN [text |-> count, display |-> DisplayFor(count)]
                 ELSE cartBadge

\* updateCartBadge(), count null: fetchCartCount() up to its await of fetch
fetchCartCount ==
    IF "cart-badge" \in elems THEN <<Get("count", NoArg)>> ELSE <<>>

\* updateCartTotal(total)
updateCartTotal(total) ==
    cartTotal' = IF "cart-total" \in elems THEN TotalText(total) ELSE cartTotal

\* quantityElement.textContent = data.new_quantity, if the element exists
updateQuantity(item, quantity) ==
    qtyText' = IF item \in DOMAIN qtyText
               THEN [qtyText EXCEPT ![item] = quantity]
               ELSE qtyText

\* cartItem.remove(), if the node exists
removeCartItem(item) == cartItems' = cartItems \ {item}

\* updateNotificationBadge(count)
updateNotificationBadge(count) ==
    notifBadge' = IF "notification-badge" \in elems
                  THEN [text |-> count, display |-> DisplayFor(count)]
                  ELSE notifBadge

\* (mutant) displayNotifications adding its rows to those the menu has
displayNotificationsAppend(notifications) ==
    notifMenu' = IF "notification-menu" \in elems
                 THEN [rows |-> notifMenu.rows \o notifications,
                       placeholder |-> notifications = <<>>]
                 ELSE notifMenu

\* displayNotifications(notifications): the menu's rows, or the placeholder row
displayNotifications(notifications) ==
    notifMenu' = IF "notification-menu" \in elems
                 THEN [rows |-> notifications, placeholder |-> notifications = <<>>]
                 ELSE notifMenu

\* (mutant) displaySearchResults without its classList.remove('d-none')
displaySearchResultsStillHidden(items) ==
    searchPanel' = IF "search-results" \in elems
                   THEN [hidden |-> searchPanel.hidden, rows |-> items,
                         placeholder |-> items = <<>>]
                   ELSE searchPanel

\* displaySearchResults(items)
displaySearchResults(items) ==
    searchPanel' = IF "search-results" \in elems
                   THEN [hidden |-> FALSE, rows |-> items, placeholder |-> items = <<>>]
                   ELSE searchPanel

\* document.getElementById('search-results')?.classList.add('d-none')
hideSearchResults ==
    searchPanel' = IF "search-results" \in elems
                   THEN [searchPanel EXCEPT !.hidden = TRUE]
                   ELSE searchPanel

-----------------------------------------------------------------------------
(* The page as the server renders it *)

AllElems == {"cart-badge", "cart-total", "menu-search", "search-results",
             "notification-badge", "notification-menu"}

\* a cart page with every widget, and a page with none of them
Layouts ==
    { [elems |-> AllElems, items |-> Items, qty |-> [i \in Items |-> 1],
       count |-> 1, stats |-> [k \in {"pending"} |-> 0],
       csrfField |-> "tokF", csrfMeta |-> Undefined],
      [elems |-> {}, items |-> {}, qty |-> [i \in {} |-> 1],
       count |-> 0, stats |-> [k \in {} |-> 0],
       csrfField |-> Undefined, csrfMeta |-> "tokM"] }

\* a page with the cart badge and the search box only
BadgeAndSearch ==
    [elems |-> {"cart-badge", "menu-search"}, items |-> {}, qty |-> [i \in {} |-> 1],
     count |-> 1, stats |-> [k \in {} |-> 0],
     csrfField |-> "tokF", csrfMeta |-> Undefined]

\* a page with the badges, the notification menu, a stat and the search box,
\* and no cart listing
BadgesAndSearch ==
    [elems |-> {"cart-badge", "menu-search", "notification-badge", "notification-menu"},
     items |-> {}, qty |-> [i \in {} |-> 1],
     count |-> 1, stats |-> [k \in {"pending"} |-> 0],
     csrfField |-> "tokF", csrfMeta |-> Undefined]

\* pages without widgets, by where they keep the CSRF token: in the hidden
\* field and the meta tag, in the meta tag with the field empty or absent, or
\* nowhere
TokenPages ==
    { [elems |-> {}, items |-> {}, qty |-> [i \in {} |-> 1],
       count |-> 0, stats |-> [k \in {} |-> 0],
       csrfField |-> t[1], csrfMeta |-> t[2]] :
         t \in {<<"tokF", "tokM">>, <<"", "tokM">>, <<Undefined, "tokM">>,
                <<Undefined, Undefined>>} }

InitOn(Pages) ==
    \E L \in Pages :
        /\ phase = "loading"
        /\ now = 0
        /\ elems = L.elems
        /\ cartBadge = [text |-> L.count, display |-> DisplayFor(L.count)]
        /\ cartTotal = TotalText(L.count)
        /\ qtyText = L.qty
        /\ cartItems = L.items
        /\ loading = [present |-> FALSE, display |-> "none", message |-> ""]
        /\ toasts = <<>>
        /\ toastContainer = FALSE
        /\ inputValue = ""
        /\ searchTimeout = NoTimer
        /\ searchPanel = [hidden |-> TRUE, rows |-> <<>>, placeholder |-> FALSE]
        /\ notifBadge = [text |-> 0, display |-> "none"]
        /\ notifMenu = [rows |-> <<>>, placeholder |-> TRUE]
        /\ statText = L.stats
        /\ pollTimer = NoTimer
        /\ reloadTimers = {}
        /\ csrfField = L.csrfField
        /\ csrfMeta = L.csrfMeta
        /\ issued = [k \in Kinds |-> 0]
        /\ inflight = {}
        /\ lastInput = [at |-> NoTimer, searches |-> 0]
        /\ gestures = 0
        /\ lastFired = [query |-> "", req |-> 0, answered |-> FALSE, items |-> <<>>,
                        panel |-> "none"]
        /\ serverCart = [count |-> L.count, since |-> 0]
        /\ ev = Event("init", 0, NoRes)

Init == InitOn(Layouts)

-----------------------------------------------------------------------------
(* Construction and polling *)

\* (mutant) the refreshes without updateOrderStats()
RefreshNoStats == fetchCartCount \o <<Get("notifications", NoArg)>>

\* loadInitialData(), and the interval's callback: the three refreshes
Refresh == fetchCartCount \o <<Get("notifications", NoArg)>> \o <<Get("stats", NoArg)>>

\* setInterval(..., 30000), called at time t
startRealTimeUpdates(t) == pollTimer' = t + PollInterval

\* new Dashboard(), on DOMContentLoaded
Construct ==
    /\ phase = "loading"
    /\ phase' = "live"
    /\ Issue(Refresh)
    /\ startRealTimeUpdates(now)
    /\ UNCHANGED <<serverCart, lastFired>>
    /\ ev' = Event("construct", 0, NoRes)
    /\ noToast
    /\ UNCHANGED <<now, elems, csrfField, csrfMeta, cartVars, searchVars, pollVars,
                   loading, reloadTimers, gestures, lastInput>>

\* a tick of the interval started by startRealTimeUpdates()
PollTick ==
    /\ phase = "live"
    /\ pollTimer = now
    /\ pollTimer <= MaxTicks * PollInterval
    /\ Issue(Refresh)
    /\ pollTimer' = pollTimer + PollInterval
    /\ UNCHANGED <<serverCart, lastFired>>
    /\ ev' = Event("tick", 0, NoRes)
    /\ noToast
    /\ UNCHANGED <<pageVars, now, cartVars, searchVars, pollVars, loading, reloadTimers, gestures, lastInput>>

\* fetchCartCount() resumes, then updateCartBadge's .then callback
fetchCartCountResume(i, res) ==
    /\ updateCartBadge(IF res.outcome = "ok" THEN res.count ELSE 0)
    /\ UNCHANGED <<cartTotal, qtyText, cartItems>>

\* the promise of cart-count request i settles with res
CountSettle(i, res) ==
    /\ phase = "live"
    /\ Settle(i)
    /\ fetchCartCountResume(i, res)
    /\ UNCHANGED <<serverCart, lastFired>>
    /\ ev' = Event("fetchCartCountResume", i.id, res)
    /\ noToast
    /\ UNCHANGED <<pageVars, now, searchVars, pollVars, loading,
                   pollTimer, reloadTimers, gestures, lastInput>>

CountSettles ==
    \E i \in Pending("count") : \E res \in CountResponses : CountSettle(i, res)

(* The server's cart.  Its number of items changes when the server handles a *)
(* mutation, of this page or of another; a cart-count request issued after   *)
(* the last change is answered, if it is answered, with that number.         *)

ServerCartChanges ==
    \E count \in Counts \ {serverCart.count} :
        /\ phase = "live"
        /\ serverCart' = [count |-> count, since |-> Sent]
        /\ UNCHANGED lastFired
        /\ ev' = Event("serverCartChanges", 0, NoRes)
        /\ noToast
        /\ UNCHANGED <<pageVars, now, cartVars, searchVars, pollVars, loading,
                       pollTimer, reloadTimers, netVars, gestures, lastInput>>

CurrentCount(i, res) ==
    (res.outcome = "ok" /\ i.id > serverCart.since) => res.count = serverCart.count

CountAnswered ==
    \E i \in Pending("count") : \E res \in CountResponses :
        CurrentCount(i, res) /\ CountSettle(i, res)

\* (mutant) loadNotifications resumes, and shows an empty list when the poll failed
loadNotificationsResumeFallback(i, res) ==
    IF res.outcome = "ok"
    THEN /\ updateNotificationBadge(Len(res.notifications))
         /\ displayNotifications(res.notifications)
    ELSE /\ updateNotificationBadge(0)
         /\ displayNotifications(<<>>)

\* loadNotifications() resumes
loadNotificationsResume(i, res) ==
    IF res.outcome = "ok"
    THEN /\ updateNotificationBadge(Len(res.notifications))
         /\ displayNotifications(res.notifications)
    ELSE UNCHANGED <<notifBadge, notifMenu>>

NotificationsSettle ==
    \E i \in Pending("notifications") : \E res \in NotificationResponses :
        /\ phase = "live"
        /\ Settle(i)
        /\ loadNotificationsResume(i, res)
        /\ UNCHANGED <<serverCart, lastFired>>
        /\ ev' = Event("loadNotificationsResume", i.id, res)
        /\ noToast
        /\ UNCHANGED <<pageVars, now, cartVars, searchVars, statText, loading, pollTimer, reloadTimers, gestures, lastInput>>

\* (mutant) updateOrderStats resumes, and resets the stats the response lacks
updateOrderStatsResumeReset(i, res) ==
    statText' = IF res.outcome = "ok"
                THEN [k \in DOMAIN statText |->
                        IF k \in DOMAIN res.stats THEN res.stats[k] ELSE 0]
                ELSE statText

\* updateOrderStats() resumes: each key of the response with a #stat-<key>
updateOrderStatsResume(i, res) ==
    statText' = IF res.outcome = "ok"
                THEN [k \in DOMAIN statText |->
                        IF k \in DOMAIN res.stats THEN res.stats[k] ELSE statText[k]]
                ELSE statText

StatsSettle ==
    \E i \in Pending("stats") : \E res \in StatResponses :
        /\ phase = "live"
        /\ Settle(i)
        /\ updateOrderStatsResume(i, res)
        /\ UNCHANGED <<serverCart, lastFired>>
        /\ ev' = Event("updateOrderStatsResume", i.id, res)
        /\ noToast
        /\ UNCHANGED <<pageVars, now, cartVars, searchVars, notifBadge, notifMenu,
                       loading, pollTimer, reloadTimers, gestures, lastInput>>

-----------------------------------------------------------------------------
(* The cart *)

Called   == [outcome |-> "called"]
Declined == [outcome |-> "declined"]

\* addToCart(menuItemId, quantity) up to its await of fetch; the click handler
\* passes dataset.quantity || 1
addToCart(item) ==
    /\ showLoading("Adding to cart...")
    /\ Issue(<<Post("add", item, "1")>>)

\* (mutant) addToCart resumes, and drops the response of a request that is not
\* the one sent last
addToCartResumeLatestOnly(i, res) ==
    /\ CASE res.outcome = "ok" ->
              /\ showToast("Item added to cart!", "success")
              /\ IF i.id = Sent THEN updateCartBadge(res.cart_count)
                 ELSE UNCHANGED cartBadge
         [] res.outcome = "fail" ->
              /\ showToast(OrElse(res.message, "Failed to add item to cart"), "error")
              /\ UNCHANGED cartBadge
         [] res.outcome = "throw" ->
              /\ showToast("Error adding item to cart", "error")
              /\ UNCHANGED cartBadge
    /\ hideLoading
    /\ UNCHANGED <<cartTotal, qtyText, cartItems>>

\* addToCart resumes: the rest of the try block, catch, finally
addToCartResume(i, res) ==
    /\ CASE res.outcome = "ok" ->
              /\ showToast("Item added to cart!", "success")
              /\ updateCartBadge(res.cart_count)
         [] res.outcome = "fail" ->
              /\ showToast(OrElse(res.message, "Failed to add item to cart"), "error")
              /\ UNCHANGED cartBadge
         [] res.outcome = "throw" ->
              /\ showToast("Error adding item to cart", "error")
              /\ UNCHANGED cartBadge
    /\ hideLoading
    /\ UNCHANGED <<cartTotal, qtyText, cartItems>>

\* updateCartQuantity(menuItemId, action) up to its await of fetch
updateCartQuantity(item, action) ==
    Issue(<<Post("update", item, action)>>)

\* (mutant) updateCartQuantity resumes, and works the new quantity out of the
\* one displayed and the action
updateCartQuantityResumeLocal(i, res) ==
    /\ CASE res.outcome = "ok" ->
              /\ updateQuantity(i.arg, IF i.arg \notin DOMAIN qtyText THEN 0
                                       ELSE IF i.extra = "increase"
                                            THEN qtyText[i.arg] + 1
                                            ELSE qtyText[i.arg] - 1)
              /\ updateCartBadge(res.cart_count)
              /\ updateCartTotal(res.cart_total)
              /\ noToast
         [] res.outcome = "fail" ->
              /\ showToast(OrElse(res.message, "Failed to update cart"), "error")
              /\ UNCHANGED <<qtyText, cartBadge, cartTotal>>
         [] res.outcome = "throw" ->
              /\ showToast("Error updating cart", "error")
              /\ UNCHANGED <<qtyText, cartBadge, cartTotal>>
    /\ UNCHANGED cartItems

\* updateCartQuantity resumes
updateCartQuantityResume(i, res) ==
    /\ CASE res.outcome = "ok" ->
              /\ updateQuantity(i.arg, res.new_quantity)
              /\ updateCartBadge(res.cart_count)
              /\ updateCartTotal(res.cart_total)
              /\ noToast
         [] res.outcome = "fail" ->
              /\ showToast(OrElse(res.message, "Failed to update cart"), "error")
              /\ UNCHANGED <<qtyText, cartBadge, cartTotal>>
         [] res.outcome = "throw" ->
              /\ showToast("Error updating cart", "error")
              /\ UNCHANGED <<qtyText, cartBadge, cartTotal>>
    /\ UNCHANGED cartItems

\* removeFromCart(menuItemId) up to its return or its await of fetch;
\* confirmed is what confirm() returns
removeFromCart(item, confirmed) ==
    IF confirmed
    THEN Issue(<<Post("remove", item, NoArg)>>)
    ELSE UNCHANGED netVars

\* (mutant) removeFromCart resumes without looking at data.success
removeFromCartResumeUnchecked(i, res) ==
    /\ IF res.outcome = "throw"
       THEN /\ showToast("Error removing item from cart", "error")
            /\ UNCHANGED <<cartItems, cartBadge, cartTotal>>
       ELSE /\ removeCartItem(i.arg)
            /\ updateCartBadge(res.cart_count)
            /\ updateCartTotal(res.cart_total)
            /\ showToast("Item removed from cart", "success")
    /\ UNCHANGED qtyText

\* (mutant) removeFromCart resumes, and takes every cart item node away
removeFromCartResumeAll(i, res) ==
    /\ CASE res.outcome = "ok" ->
              /\ cartItems' = {}
              /\ updateCartBadge(res.cart_count)
              /\ updateCartTotal(res.cart_total)
              /\ showToast("Item removed from cart", "success")
         [] res.outcome = "fail" ->
              /\ showToast(OrElse(res.message, "Failed to remove item"), "error")
              /\ UNCHANGED <<cartItems, cartBadge, cartTotal>>
         [] res.outcome = "throw" ->
              /\ showToast("Error removing item from cart", "error")
              /\ UNCHANGED <<cartItems, cartBadge, cartTotal>>
    /\ UNCHANGED qtyText

\* removeFromCart resumes
removeFromCartResume(i, res) ==
    /\ CASE res.outcome = "ok" ->
              /\ removeCartItem(i.arg)
              /\ updateCartBadge(res.cart_count)
              /\ updateCartTotal(res.cart_total)
              /\ showToast("Item removed from cart", "success")
         [] res.outcome = "fail" ->
              /\ showToast(OrElse(res.message, "Failed to remove item"), "error")
              /\ UNCHANGED <<cartItems, cartBadge, cartTotal>>
         [] res.outcome = "throw" ->
              /\ showToast("Error removing item from cart", "error")
              /\ UNCHANGED <<cartItems, cartBadge, cartTotal>>
    /\ UNCHANGED qtyText

\* a user gesture reaches a listener of the live page
Gesture ==
    /\ phase = "live"
    /\ gestures < MaxGestures
    /\ gestures' = gestures + 1

\* click on .add-to-cart-btn
ClickAddToCart ==
    \E item \in Items :
        /\ Gesture
        /\ addToCart(item)
        /\ UNCHANGED <<serverCart, lastFired>>
        /\ ev' = Event("addToCart", Sent + 1, Called)
        /\ noToast
        /\ UNCHANGED <<pageVars, now, cartVars, searchVars, pollVars, pollTimer, reloadTimers, lastInput>>

\* click on .cart-qty-increase or .cart-qty-decrease
ClickQuantity ==
    \E item \in Items : \E action \in {"increase", "decrease"} :
        /\ Gesture
        /\ updateCartQuantity(item, action)
        /\ UNCHANGED <<serverCart, lastFired>>
        /\ ev' = Event("updateCartQuantity", Sent + 1, Called)
        /\ noToast
        /\ UNCHANGED <<pageVars, now, cartVars, searchVars, pollVars, loading, pollTimer, reloadTimers, lastInput>>

\* click on .cart-remove-btn; confirm() is the user's answer
ClickRemove ==
    \E item \in Items : \E confirmed \in BOOLEAN :
        /\ Gesture
        /\ removeFromCart(item, confirmed)
        /\ UNCHANGED <<serverCart, lastFired>>
        /\ ev' = IF confirmed THEN Event("removeFromCart", Sent + 1, Called)
                  ELSE Event("removeFromCart", 0, Declined)
        /\ noToast
        /\ UNCHANGED <<pageVars, now, cartVars, searchVars, pollVars, loading, pollTimer, reloadTimers, lastInput>>

AddSettles ==
    \E i \in Pending("add") : \E res \in AddResponses :
        /\ phase = "live"
        /\ Settle(i)
        /\ addToCartResume(i, res)
        /\ UNCHANGED <<serverCart, lastFired>>
        /\ ev' = Event("addToCartResume", i.id, res)
        /\ UNCHANGED <<pageVars, now, searchVars, pollVars, pollTimer,
                       reloadTimers, gestures, lastInput>>

UpdateSettles ==
    \E i \in Pending("update") : \E res \in CartResponses :
        /\ phase = "live"
        /\ Settle(i)
        /\ updateCartQuantityResume(i, res)
        /\ UNCHANGED <<serverCart, lastFired>>
        /\ ev' = Event("updateCartQuantityResume", i.id, res)
        /\ UNCHANGED <<pageVars, now, searchVars, pollVars, loading, pollTimer,
                       reloadTimers, gestures, lastInput>>

RemoveSettles ==
    \E i \in Pending("remove") : \E res \in RemoveResponses :
        /\ phase = "live"
        /\ Settle(i)
        /\ removeFromCartResume(i, res)
        /\ UNCHANGED <<serverCart, lastFired>>
        /\ ev' = Event("removeFromCartResume", i.id, res)
        /\ UNCHANGED <<pageVars, now, searchVars, pollVars, loading, pollTimer,
                       reloadTimers, gestures, lastInput>>

-----------------------------------------------------------------------------
(* Orders *)

\* (mutant) the reload without its delay
scheduleReloadAtOnce(t) == reloadTimers' = reloadTimers \cup {t}

\* setTimeout(() => window.location.reload(), 1000), called at time t
scheduleReload(t) == reloadTimers' = reloadTimers \cup {t + ReloadDelay}

\* updateOrderStatus(orderId, newStatus) up to its await of fetch
updateOrderStatus(order, status) ==
    /\ showLoading("Updating order status...")
    /\ Issue(<<Post("status", order, status)>>)

\* (mutant) updateOrderStatus resumes, with hideLoading() at the end of the try
\* block instead of a finally block
updateOrderStatusResumeNoFinally(i, res) ==
    CASE res.outcome = "ok" ->
           /\ showToast("Order status updated successfully", "success")
           /\ scheduleReload(now)
           /\ hideLoading
      [] res.outcome = "fail" ->
           /\ showToast(OrElse(res.message, "Failed to update order status"), "error")
           /\ UNCHANGED reloadTimers
           /\ hideLoading
      [] res.outcome = "throw" ->
           /\ showToast("Error updating order status", "error")
           /\ UNCHANGED <<reloadTimers, loading>>

\* updateOrderStatus resumes
updateOrderStatusResume(i, res) ==
    /\ CASE res.outcome = "ok" ->
              /\ showToast("Order status updated successfully", "success")
              /\ scheduleReload(now)
         [] res.outcome = "fail" ->
              /\ showToast(OrElse(res.message, "Failed to update order status"), "error")
              /\ UNCHANGED reloadTimers
         [] res.outcome = "throw" ->
              /\ showToast("Error updating order status", "error")
              /\ UNCHANGED reloadTimers
    /\ hideLoading

\* (mutant) cancelOrder without its confirm()
cancelOrderUnasked(order, confirmed) ==
    /\ showLoading("Cancelling order...")
    /\ Issue(<<Post("cancel", order, NoArg)>>)

\* cancelOrder(orderId) up to its return or its await of fetch; confirmed is
\* what confirm() returns
cancelOrder(order, confirmed) ==
    IF confirmed
    THEN /\ showLoading("Cancelling order...")
         /\ Issue(<<Post("cancel", order, NoArg)>>)
    ELSE UNCHANGED <<netVars, loading>>

\* (mutant) cancelOrder resumes with a catch block that only logs
cancelOrderResumeSilent(i, res) ==
    /\ CASE res.outcome = "ok" ->
              /\ showToast("Order cancelled successfully", "success")
              /\ scheduleReload(now)
         [] res.outcome = "fail" ->
              /\ showToast(OrElse(res.message, "Failed to cancel order"), "error")
              /\ UNCHANGED reloadTimers
         [] res.outcome = "throw" ->
              /\ noToast
              /\ UNCHANGED reloadTimers
    /\ hideLoading

\* cancelOrder resumes
cancelOrderResume(i, res) ==
    /\ CASE res.outcome = "ok" ->
              /\ showToast("Order cancelled successfully", "success")
              /\ scheduleReload(now)
         [] res.outcome = "fail" ->
              /\ showToast(OrElse(res.message, "Failed to cancel order"), "error")
              /\ UNCHANGED reloadTimers
         [] res.outcome = "throw" ->
              /\ showToast("Error cancelling order", "error")
              /\ UNCHANGED reloadTimers
    /\ hideLoading

\* change on .order-status-select
ChangeStatus ==
    \E order \in Orders : \E status \in Statuses :
        /\ Gesture
        /\ updateOrderStatus(order, status)
        /\ UNCHANGED <<serverCart, lastFired>>
        /\ ev' = Event("updateOrderStatus", Sent + 1, Called)
        /\ noToast
        /\ UNCHANGED <<pageVars, now, cartVars, searchVars, pollVars, pollTimer, reloadTimers, lastInput>>

\* click on .cancel-order-btn; confirm() is the user's answer
ClickCancel ==
    \E order \in Orders : \E confirmed \in BOOLEAN :
        /\ Gesture
        /\ cancelOrder(order, confirmed)
        /\ UNCHANGED <<serverCart, lastFired>>
        /\ ev' = IF confirmed THEN Event("cancelOrder", Sent + 1, Called)
                  ELSE Event("cancelOrder", 0, Declined)
        /\ noToast
        /\ UNCHANGED <<pageVars, now, cartVars, searchVars, pollVars, pollTimer, reloadTimers, lastInput>>

StatusSettles ==
    \E i \in Pending("status") : \E res \in OrderResponses :
        /\ phase = "live"
        /\ Settle(i)
        /\ updateOrderStatusResume(i, res)
        /\ UNCHANGED <<serverCart, lastFired>>
        /\ ev' = Event("updateOrderStatusResume", i.id, res)
        /\ UNCHANGED <<pageVars, now, cartVars, searchVars, pollVars, pollTimer,
                       gestures, lastInput>>

CancelSettles ==
    \E i \in Pending("cancel") : \E res \in OrderResponses :
        /\ phase = "live"
        /\ Settle(i)
        /\ cancelOrderResume(i, res)
        /\ UNCHANGED <<serverCart, lastFired>>
        /\ ev' = Event("cancelOrderResume", i.id, res)
        /\ UNCHANGED <<pageVars, now, cartVars, searchVars, pollVars, pollTimer,
                       gestures, lastInput>>

\* a reload timeout fires: window.location.reload() unloads the page
Reload ==
    /\ phase = "live"
    /\ now \in reloadTimers
    /\ phase' = "unloaded"
    /\ UNCHANGED <<serverCart, lastFired>>
    /\ ev' = Event("reload", 0, NoRes)
    /\ noToast
    /\ UNCHANGED <<now, elems, csrfField, csrfMeta, cartVars, searchVars, pollVars,
                   loading, pollTimer, reloadTimers, netVars, gestures, lastInput>>

-----------------------------------------------------------------------------
(* Search *)

\* (mutant) the input listener without its clearTimeout: a pending timeout stays
restartSearchTimeoutNoClear(t) ==
    searchTimeout' = IF searchTimeout = NoTimer THEN t + SearchDelay ELSE searchTimeout

\* the input listener: clearTimeout(searchTimeout); searchTimeout = setTimeout(..., 300)
restartSearchTimeout(t) == searchTimeout' = t + SearchDelay

\* input event on #menu-search, the box now holding value
Input ==
    \E value \in Queries :
        /\ Gesture
        /\ "menu-search" \in elems
        /\ inputValue' = value
        /\ lastInput' = [at |-> now, searches |-> issued["search"]]
        /\ restartSearchTimeout(now)
        /\ UNCHANGED <<serverCart, lastFired>>
        /\ ev' = Event("input", 0, NoRes)
        /\ noToast
        /\ UNCHANGED <<pageVars, now, cartVars, searchPanel, pollVars, loading, pollTimer, reloadTimers, netVars>>

\* (mutant) searchMenu with the test query.length < 1
searchMenuOffByOne(query) ==
    IF Len(query) < MinQueryLen - 1
    THEN /\ hideSearchResults
         /\ UNCHANGED netVars
    ELSE /\ Issue(<<Get("search", query)>>)
         /\ UNCHANGED searchPanel

\* searchMenu(query) up to its return or its await of fetch
searchMenu(query) ==
    IF Len(query) < MinQueryLen
    THEN /\ hideSearchResults
         /\ UNCHANGED netVars
    ELSE /\ Issue(<<Get("search", query)>>)
         /\ UNCHANGED searchPanel

\* searchMenu resumes
searchMenuResume(i, res) ==
    IF res.outcome = "ok"
    THEN displaySearchResults(res.items)
    ELSE UNCHANGED searchPanel

\* the debounce timeout fires: this.searchMenu(e.target.value)
SearchTimeoutFires ==
    /\ phase = "live"
    /\ searchTimeout = now
    /\ searchTimeout' = NoTimer
    /\ searchMenu(inputValue)
    /\ lastFired' = [query |-> inputValue,
                     req |-> IF Len(inputValue) < MinQueryLen THEN 0 ELSE Sent + 1,
                     answered |-> FALSE, items |-> <<>>,
                     panel |-> IF Len(inputValue) < MinQueryLen THEN "own" ELSE "other"]
    /\ UNCHANGED serverCart
    /\ ev' = Event("searchMenu", IF Len(inputValue) < MinQueryLen THEN 0
                                 ELSE Sent + 1, Called)
    /\ noToast
    /\ UNCHANGED <<pageVars, now, cartVars, inputValue, pollVars, loading, pollTimer, reloadTimers, gestures, lastInput>>

SearchSettles ==
    \E i \in Pending("search") : \E res \in SearchResponses :
        /\ phase = "live"
        /\ Settle(i)
        /\ searchMenuResume(i, res)
        /\ lastFired' = IF res.outcome # "ok" THEN lastFired
                        ELSE IF i.id = lastFired.req
                        THEN [lastFired EXCEPT !.answered = TRUE, !.items = res.items,
                                               !.panel = "own"]
                        ELSE [lastFired EXCEPT !.panel = "other"]
        /\ UNCHANGED serverCart
        /\ ev' = Event("searchMenuResume", i.id, res)
        /\ noToast
        /\ UNCHANGED <<pageVars, now, cartVars, inputValue, searchTimeout, pollVars,
                       loading, pollTimer, reloadTimers, gestures, lastInput>>

-----------------------------------------------------------------------------
(* Time *)

Deadlines == ({searchTimeout, pollTimer} \ {NoTimer}) \cup reloadTimers

\* time passes, up to the next deadline; while the debounce timer is pending
\* it may also pass by a Quantum
Elapse ==
    /\ phase = "live"
    /\ Deadlines # {}
    /\ \E t \in {Min(Deadlines)} \cup
                IF searchTimeout # NoTimer THEN {now + Quantum} ELSE {} :
          /\ now < t
          /\ t <= Min(Deadlines)
          /\ now' = t
    /\ UNCHANGED <<serverCart, lastFired>>
    /\ ev' = Event("elapse", 0, NoRes)
    /\ noToast
    /\ UNCHANGED <<pageVars, cartVars, searchVars, pollVars, loading,
                   pollTimer, reloadTimers, netVars, gestures, lastInput>>

-----------------------------------------------------------------------------
(* The specifications *)

Next ==
    \/ Construct
    \/ PollTick
    \/ CountSettles
    \/ NotificationsSettle
    \/ StatsSettle
    \/ ClickAddToCart
    \/ ClickQuantity
    \/ ClickRemove
    \/ AddSettles
    \/ UpdateSettles
    \/ RemoveSettles
    \/ ChangeStatus
    \/ ClickCancel
    \/ StatusSettles
    \/ CancelSettles
    \/ Reload
    \/ Input
    \/ SearchTimeoutFires
    \/ SearchSettles
    \/ Elapse

Spec == Init /\ [][Next]_vars

\* the cart, before the first tick of the interval: the user only uses the
\* cart's buttons, and of the polls only the cart count is answered
NextCart ==
    \/ Construct
    \/ CountSettles
    \/ ClickAddToCart
    \/ ClickQuantity
    \/ ClickRemove
    \/ AddSettles
    \/ UpdateSettles
    \/ RemoveSettles

SpecCart == Init /\ [][NextCart]_vars

\* orders: the user only changes and cancels orders and adds to the cart
NextOrder ==
    \/ Construct
    \/ PollTick
    \/ ChangeStatus
    \/ ClickCancel
    \/ ClickAddToCart
    \/ StatusSettles
    \/ CancelSettles
    \/ AddSettles
    \/ Reload
    \/ Elapse

SpecOrder == Init /\ [][NextOrder]_vars

\* search: the user only types in the search box
NextSearch ==
    \/ Construct
    \/ PollTick
    \/ Input
    \/ SearchTimeoutFires
    \/ SearchSettles
    \/ Elapse

SpecSearch == Init /\ [][NextSearch]_vars

\* confirmations: the user only uses the two buttons that ask
NextConfirm ==
    \/ Construct
    \/ ClickRemove
    \/ ClickCancel
    \/ RemoveSettles
    \/ CancelSettles
    \/ Reload
    \/ Elapse

SpecConfirm == Init /\ [][NextConfirm]_vars

\* every call, before the first tick of the interval and one user action at a
\* time: the user waits until the page has dealt with a gesture (its request
\* answered, its timer fired) before the next
Idle ==
    /\ \A r \in inflight : r.kind \in {"count", "notifications", "stats"}
    /\ searchTimeout = NoTimer
    /\ reloadTimers = {}

NextCalls ==
    \/ Construct
    \/ CountSettles
    \/ NotificationsSettle
    \/ StatsSettle
    \/ Idle /\ ClickAddToCart
    \/ Idle /\ ClickQuantity
    \/ Idle /\ ClickRemove
    \/ AddSettles
    \/ UpdateSettles
    \/ RemoveSettles
    \/ Idle /\ ChangeStatus
    \/ Idle /\ ClickCancel
    \/ StatusSettles
    \/ CancelSettles
    \/ Reload
    \/ Idle /\ Input
    \/ SearchTimeoutFires
    \/ SearchSettles
    \/ Elapse

SpecCalls == InitOn({BadgeAndSearch}) /\ [][NextCalls]_vars

\* polling: the user does nothing
NextPoll ==
    \/ Construct
    \/ PollTick
    \/ CountSettles
    \/ NotificationsSettle
    \/ StatsSettle
    \/ Elapse

SpecPoll == Init /\ [][NextPoll]_vars

\* every call and the interval's ticks, with a user who makes a single
\* gesture, after the last tick of the run and with nothing pending
AtRest ==
    /\ inflight = {}
    /\ searchTimeout = NoTimer
    /\ reloadTimers = {}
    /\ gestures = 0
    /\ pollTimer > MaxTicks * PollInterval

NextAll ==
    \/ Construct
    \/ PollTick
    \/ CountSettles
    \/ NotificationsSettle
    \/ StatsSettle
    \/ AtRest /\ ClickAddToCart
    \/ AtRest /\ ClickQuantity
    \/ AtRest /\ ClickRemove
    \/ AddSettles
    \/ UpdateSettles
    \/ RemoveSettles
    \/ AtRest /\ ChangeStatus
    \/ AtRest /\ ClickCancel
    \/ StatusSettles
    \/ CancelSettles
    \/ Reload
    \/ AtRest /\ Input
    \/ SearchTimeoutFires
    \/ SearchSettles
    \/ Elapse

SpecAll == InitOn({BadgesAndSearch}) /\ [][NextAll]_vars

\* the requests that change something on the server, on the pages of
\* TokenPages: the user uses the cart's and the orders' controls
NextPosts ==
    \/ Construct
    \/ ClickAddToCart
    \/ ClickQuantity
    \/ ClickRemove
    \/ ChangeStatus
    \/ ClickCancel
    \/ AddSettles
    \/ UpdateSettles
    \/ RemoveSettles
    \/ StatusSettles
    \/ CancelSettles
    \/ Reload
    \/ Elapse

SpecPosts == InitOn(TokenPages) /\ [][NextPosts]_vars

\* the badge and the server's cart: the user only adds to the cart, the
\* server's cart changes, and the cart count is answered by the server
NextSync ==
    \/ Construct
    \/ PollTick
    \/ ClickAddToCart
    \/ AddSettles
    \/ ServerCartChanges
    \/ CountAnswered
    \/ Elapse

SpecSync == Init /\ [][NextSync]_vars

-----------------------------------------------------------------------------
(* What the steps are, as ev tells *)

CartResumes  == {"addToCartResume", "updateCartQuantityResume", "removeFromCartResume"}
OrderResumes == {"updateOrderStatusResume", "cancelOrderResume"}
ReadResumes  == {"searchMenuResume", "fetchCartCountResume",
                 "loadNotificationsResume", "updateOrderStatsResume"}

\* the step taken last was the handling of a response, or of a rejection
Answered(ops, outcomes) == ev.op \in ops /\ ev.res.outcome \in outcomes

\* the step taken last has shown exactly one toast, of type error
OneErrorToast == Len(toasts) = 1 /\ toasts[1].type = "error"

HasBadge == "cart-badge" \in elems

-----------------------------------------------------------------------------
(* C1: when the response of addToCart, updateCartQuantity or removeFromCart  *)
(* says success = false, handling it leaves the cart's DOM state as it was   *)
(* (the badge's text and visibility, the total, every quantity display, the  *)
(* set of cart item nodes) and shows exactly one toast, an error toast.      *)
(* Nothing else of the page changes but the loading indicator, which         *)
(* addToCart hides.                                                          *)
C1_FailedCartResponseLeavesCart ==
    [][ Answered(CartResumes, {"fail"})' =>
          /\ UNCHANGED cartVars
          /\ OneErrorToast'
          /\ UNCHANGED <<searchVars, pollVars, pollTimer, reloadTimers, phase>>
          /\ ev'.op # "addToCartResume" => UNCHANGED loading
      ]_vars

\* a removal the server has refused, on the cart page: the node is still there
C1_Witness ==
    /\ Answered({"removeFromCartResume"}, {"fail"})
    /\ cartItems = Items
    /\ HasBadge
    /\ OneErrorToast

-----------------------------------------------------------------------------
(* C2: the badge and the total only ever change to a value a server response *)
(* carried: whenever the badge's text or visibility changes, the step is the *)
(* handling of a successful response and the badge shows that response's     *)
(* cart_count (or count), and whenever the total changes it shows that       *)
(* response's cart_total; a failed request writes neither.                   *)
CarriedCount ==
    \/ /\ Answered(CartResumes, {"ok"})
       /\ cartBadge.text = ev.res.cart_count
    \/ /\ Answered({"fetchCartCountResume"}, {"ok"})
       /\ cartBadge.text = ev.res.count

CarriedTotal ==
    /\ Answered({"updateCartQuantityResume", "removeFromCartResume"}, {"ok"})
    /\ cartTotal = TotalText(ev.res.cart_total)

C2_PassiveMirror ==
    [][ /\ cartBadge' # cartBadge => CarriedCount'
        /\ cartTotal' # cartTotal => CarriedTotal'
      ]_vars

-----------------------------------------------------------------------------
(* C3: a burst of input events, each less than 300 ms after the one before,  *)
(* whose final query has at least 2 characters, issues exactly one search    *)
(* request: none before 300 ms have passed since the last input event, one   *)
(* once they have, and that one is issued at exactly 300 ms after the last   *)
(* input event and carries the box's final value.                            *)
SearchesSinceInput == issued["search"] - lastInput.searches

C3_Debounce ==
    /\ [](lastInput.at # NoTimer =>
            /\ SearchesSinceInput \in {0, 1}
            /\ now < lastInput.at + 300 => SearchesSinceInput = 0
            /\ now > lastInput.at + 300 /\ Len(inputValue) >= 2
                  => SearchesSinceInput = 1)
    /\ [][ issued'["search"] # issued["search"] =>
             /\ issued'["search"] = issued["search"] + 1
             /\ now = lastInput.at + 300
             /\ \E r \in inflight' \ inflight :
                   r.kind = "search" /\ r.arg = inputValue /\ Len(r.arg) >= 2
         ]_vars

\* two input events less than 300 ms apart, and 300 ms after the second the
\* one request of the burst has just been issued
C3_Witness ==
    /\ gestures >= 2
    /\ lastInput.at \in 1 .. 299
    /\ now = lastInput.at + 300
    /\ issued["search"] = 1
    /\ ev.op = "searchMenu"

-----------------------------------------------------------------------------
(* C4: when searchMenu runs with a query of length 0 or 1 it issues no       *)
(* request, and the results panel, if the page has one, is hidden when it    *)
(* returns.                                                                  *)
C4_ShortQuery ==
    [][ (ev'.op = "searchMenu" /\ Len(inputValue) < 2) =>
          /\ UNCHANGED <<issued, inflight>>
          /\ "search-results" \in elems => searchPanel'.hidden
      ]_vars

\* a panel that was showing results, hidden by a one-character query
C4_Witness ==
    /\ ev.op = "searchMenu"
    /\ Len(inputValue) = 1
    /\ searchPanel.rows # <<>>
    /\ searchPanel.hidden

-----------------------------------------------------------------------------
(* C5: when the user declines the confirm() of removeFromCart or cancelOrder *)
(* the invocation issues no request and changes nothing: no cart item node   *)
(* goes, badge and total stay, the loading indicator is not shown, no toast  *)
(* is shown and no reload is scheduled.                                      *)
C5_DeclinedIsNoOp ==
    [][ ev'.res.outcome = "declined" =>
          /\ UNCHANGED <<issued, inflight>>
          /\ UNCHANGED <<cartVars, loading, reloadTimers, phase>>
          /\ toasts' = <<>>
          /\ UNCHANGED <<searchVars, pollVars, pollTimer>>
      ]_vars

\* a declined cancellation
C5_Witness ==
    /\ ev.op = "cancelOrder"
    /\ ev.res.outcome = "declined"
    /\ Pending("cancel") = {}
    /\ ~loading.present

-----------------------------------------------------------------------------
(* C6: construction issues exactly one notifications request and one         *)
(* order-stats request, and every tick of the 30-second interval exactly one *)
(* more of each: at any time the number of each issued is one more than the  *)
(* number of 30-second periods that have passed (at the instant a tick is    *)
(* due, it has been taken or is about to be).  The timer stays set, whatever *)
(* became of the earlier polls.                                              *)
PeriodsPassed == now \div 30000

PollsAsDue(n) ==
    \/ n = 1 + PeriodsPassed
    \/ n = PeriodsPassed /\ now % 30000 = 0 /\ now > 0

C6_PollingSchedule ==
    IF phase = "loading"
    THEN issued["notifications"] = 0 /\ issued["stats"] = 0 /\ pollTimer = NoTimer
    ELSE /\ PollsAsDue(issued["notifications"])
         /\ issued["stats"] = issued["notifications"]
         /\ pollTimer = 30000 * issued["notifications"]

\* the first tick has polled again while the first notifications request is
\* still pending and the first order-stats request has failed
C6_Witness ==
    /\ now = 30000
    /\ issued["notifications"] = 2
    /\ issued["stats"] = 2
    /\ \E r \in Pending("notifications") : r.id <= 3
    /\ Answered({"updateOrderStatsResume"}, {"throw"})

-----------------------------------------------------------------------------
(* C7, as claimed: whichever call fails (the transport, or a payload that    *)
(* says success = false), handling the failure shows a toast.                *)
C7_EveryFailureToasts ==
    [][ Answered(CartResumes \cup OrderResumes \cup ReadResumes, {"fail", "throw"})'
          => Len(toasts') >= 1
      ]_vars

(* C7, amended: a failure of one of the five POST calls (cart add, update,   *)
(* remove, order status, cancel) shows exactly one toast, an error toast; a  *)
(* failure of one of the four GET calls (search, notifications, order stats, *)
(* cart count) is only logged and shows no toast.                            *)
C7_PostFailuresToast ==
    [][ /\ Answered(CartResumes \cup OrderResumes, {"fail", "throw"})' => OneErrorToast'
        /\ Answered(ReadResumes, {"throw"})' => toasts' = <<>>
      ]_vars

\* a cancellation whose request failed at transport level
C7_Witness ==
    /\ Answered({"cancelOrderResume"}, {"throw"})
    /\ OneErrorToast

-----------------------------------------------------------------------------
(* C8: the successful responses of cart mutations are applied to the badge   *)
(* in the order they are received: handling one sets the badge to its        *)
(* cart_count whatever was sent before or after it, and no other step of a   *)
(* cart mutation touches the badge; so once all are handled the badge shows  *)
(* the cart_count of the response received last.                             *)
C8_ReceiptOrder ==
    [][ /\ (HasBadge /\ Answered(CartResumes, {"ok"})') =>
              cartBadge' = [text |-> ev'.res.cart_count,
                            display |-> IF ev'.res.cart_count > 0 THEN "inline"
                                        ELSE "none"]
        /\ (Answered(CartResumes, {"fail", "throw"})'
              \/ ev'.op \in {"addToCart", "updateCartQuantity", "removeFromCart"})
              => cartBadge' = cartBadge
      ]_vars

\* two mutations were pending together; the one sent last was answered first,
\* and the badge now shows the count of the one sent first, answered last
C8_Witness ==
    /\ HasBadge
    /\ Answered(CartResumes, {"ok"})
    /\ issued["add"] + issued["update"] + issued["remove"] = 2
    /\ ev.req = Sent - 1
    /\ \A r \in inflight : r.kind \notin CartKinds
    /\ cartBadge.text = ev.res.cart_count

-----------------------------------------------------------------------------
(* C9: addToCart.  A response with success = true sets the badge's text to   *)
(* its cart_count and shows a success toast.  A response with success =      *)
(* false, or a transport failure, leaves the badge as it was and shows       *)
(* exactly one error toast: the server's message when the response carries   *)
(* one, a generic text otherwise.                                            *)
C9_AddToCart ==
    [][ ev'.op = "addToCartResume" =>
          /\ Len(toasts') = 1
          /\ ev'.res.outcome = "ok" =>
                /\ HasBadge => cartBadge'.text = ev'.res.cart_count
                /\ toasts'[1] = [message |-> "Item added to cart!", type |-> "success"]
          /\ ev'.res.outcome = "fail" =>
                /\ cartBadge' = cartBadge
                /\ toasts'[1].type = "error"
                /\ toasts'[1].message =
                      IF ev'.res.message \in {Undefined, ""}
                      THEN "Failed to add item to cart" ELSE ev'.res.message
          /\ ev'.res.outcome = "throw" =>
                /\ cartBadge' = cartBadge
                /\ toasts'[1] = [message |-> "Error adding item to cart", type |-> "error"]
      ]_vars

\* the spec's example: {success: false, message: "Out of stock"}
C9_Witness ==
    /\ Answered({"addToCartResume"}, {"fail"})
    /\ ev.res.message = "Out of stock"
    /\ toasts = <<[message |-> "Out of stock", type |-> "error"]>>
    /\ HasBadge

-----------------------------------------------------------------------------
(* C10: updateOrderStatus and cancelOrder.  A reload is scheduled exactly    *)
(* when a response with success = true is handled, for 1000 ms later; a      *)
(* response with success = false or a transport failure shows an error toast *)
(* and schedules none.  The page reloads only at an instant a scheduled      *)
(* reload is due, and time does not pass that instant without it.            *)
C10_ReloadAfterSuccess ==
    /\ [][ /\ Answered(OrderResumes, {"ok"})' =>
                reloadTimers' = reloadTimers \cup {now + 1000}
           /\ Answered(OrderResumes, {"fail", "throw"})' =>
                /\ reloadTimers' = reloadTimers
                /\ OneErrorToast'
                /\ phase' = phase
           /\ reloadTimers' # reloadTimers => Answered(OrderResumes, {"ok"})'
           /\ phase' = "unloaded" /\ phase = "live" => now \in reloadTimers
         ]_vars
    /\ [](phase = "live" => \A t \in reloadTimers : now <= t)

\* the page has reloaded
C10_Witness ==
    /\ phase = "unloaded"
    /\ ev.op = "reload"
    /\ now \in reloadTimers
    /\ now >= 1000

-----------------------------------------------------------------------------
(* C11: on a page with the notification badge and menu, handling a           *)
(* successful notifications response makes the menu list exactly that        *)
(* response's notifications, in the server's order, nothing kept of the      *)
(* list shown before, and makes the badge show their number; nothing else    *)
(* ever writes the badge or the menu, so from the first such response on the *)
(* badge's count is the number of notifications listed.                      *)
HasNotifications == {"notification-badge", "notification-menu"} \subseteq elems

C11_NotificationsReplaced ==
    [][ /\ (HasNotifications /\ Answered({"loadNotificationsResume"}, {"ok"})') =>
              /\ notifMenu'.rows = ev'.res.notifications
              /\ notifMenu'.placeholder = (Len(ev'.res.notifications) = 0)
              /\ notifBadge'.text = Len(ev'.res.notifications)
              /\ notifBadge'.text = Len(notifMenu'.rows)
        /\ (notifMenu' # notifMenu \/ notifBadge' # notifBadge) =>
              Answered({"loadNotificationsResume"}, {"ok"})'
      ]_vars

\* the menu listed two notifications, and the response of a later poll, with
\* one, has replaced them
C11_Witness ==
    /\ HasNotifications
    /\ Answered({"loadNotificationsResume"}, {"ok"})
    /\ ev.req > 3
    /\ Pending("notifications") = {}
    /\ ev.res.notifications = <<"n1">>
    /\ notifMenu.rows = <<"n1">>
    /\ notifBadge = [text |-> 1, display |-> "inline"]

-----------------------------------------------------------------------------
(* C12: a mismatch between the badge and the server's cart does not last.    *)
(* While no cart mutation is in flight and every cart-count request still    *)
(* pending was issued after the server's cart last changed: handling the     *)
(* response of such a request makes the badge show the server's count, and a *)
(* badge that shows the server's count keeps showing it as long as the       *)
(* server's cart does not change and no mutation is issued.                  *)
InSync == cartBadge.text = serverCart.count

Settled ==
    /\ \A r \in inflight : r.kind \notin CartKinds
    /\ \A r \in Pending("count") : r.id > serverCart.since

NoMutation ==
    /\ serverCart' = serverCart
    /\ \A k \in CartKinds : issued'[k] = issued[k]

C12_MismatchIsTransient ==
    [][ (HasBadge /\ phase = "live" /\ Settled /\ NoMutation) =>
          /\ Answered({"fetchCartCountResume"}, {"ok"})' => InSync'
          /\ InSync => InSync'
      ]_vars

-----------------------------------------------------------------------------
(* C13: there is no retry.  Handling a failed request, of any kind, issues   *)
(* no request and sets no timer.  Requests to the notifications and the      *)
(* order-stats endpoints are issued by the construction and by the ticks of  *)
(* the 30-second interval only, one at a time, so after a failed poll the    *)
(* next one is that of the next tick.  A failed notifications or order-stats *)
(* poll leaves the notification menu, the notification badge and the stat    *)
(* elements as they were.                                                    *)
AllResumes == CartResumes \cup OrderResumes \cup ReadResumes

C13_NoRetry ==
    [][ /\ Answered(AllResumes, {"fail", "throw"})' =>
              /\ issued' = issued
              /\ inflight' \subseteq inflight
              /\ UNCHANGED <<searchTimeout, pollTimer, reloadTimers>>
        /\ \A k \in {"notifications", "stats"} :
              issued'[k] # issued[k] =>
                 /\ issued'[k] = issued[k] + 1
                 /\ \/ ev'.op = "construct"
                    \/ ev'.op = "tick" /\ now > 0 /\ now % 30000 = 0
        /\ Answered({"loadNotificationsResume", "updateOrderStatsResume"}, {"throw"})' =>
              UNCHANGED <<notifMenu, notifBadge, statText>>
      ]_vars

\* the notifications poll of the first tick has failed: the menu still lists
\* what the first poll brought, and the next poll is due at the second tick
C13_Witness ==
    /\ Answered({"loadNotificationsResume"}, {"throw"})
    /\ ev.req > 3
    /\ notifMenu.rows = <<"n2", "n1">>
    /\ notifBadge.text = 2
    /\ Pending("notifications") = {}
    /\ issued["notifications"] = 2
    /\ pollTimer = 60000

-----------------------------------------------------------------------------
(* C14: updateCartQuantity(itemId, action).  Handling a response with        *)
(* success = true makes the quantity display of itemId, if the page has one, *)
(* show the response's new_quantity, whatever it showed before and whatever  *)
(* the action was; the badge shows the response's cart_count and the total   *)
(* the response's cart_total; the quantity displays of the other items, and  *)
(* the cart item nodes, stay as they were.                                   *)
Request(id) == CHOOSE r \in inflight : r.id = id

C14_QuantityFromResponse ==
    [][ Answered({"updateCartQuantityResume"}, {"ok"})' =>
          LET item == Request(ev'.req).arg
          IN  /\ DOMAIN qtyText' = DOMAIN qtyText
              /\ \A j \in DOMAIN qtyText :
                    qtyText'[j] = IF j = item THEN ev'.res.new_quantity ELSE qtyText[j]
              /\ HasBadge => cartBadge'.text = ev'.res.cart_count
              /\ "cart-total" \in elems => cartTotal' = <<ev'.res.cart_total, "XAF">>
              /\ cartItems' = cartItems
      ]_vars

\* the server has answered quantity 0, count 0 and total 0 for item i1 on the
\* cart page: i1 shows 0, i2 still 1
C14_Witness ==
    /\ Answered({"updateCartQuantityResume"}, {"ok"})
    /\ ev.res.new_quantity = 0
    /\ DOMAIN qtyText = Items
    /\ qtyText["i1"] = 0
    /\ qtyText["i2"] = 1
    /\ cartBadge = [text |-> 0, display |-> "none"]
    /\ cartTotal = <<0, "XAF">>

-----------------------------------------------------------------------------
(* C15: removeFromCart(itemId), confirmed.  A cart item node goes only in    *)
(* the step that handles a response with success = true to the removal of    *)
(* that item, never when the request is sent or on any other response; that  *)
(* step takes away the node of itemId only, and sets the badge to the        *)
(* response's cart_count and the total to its cart_total.                    *)
C15_RemoveOnSuccess ==
    [][ /\ Answered({"removeFromCartResume"}, {"ok"})' =>
              /\ cartItems' = cartItems \ {Request(ev'.req).arg}
              /\ HasBadge => cartBadge'.text = ev'.res.cart_count
              /\ "cart-total" \in elems => cartTotal' = <<ev'.res.cart_total, "XAF">>
        /\ cartItems' # cartItems => Answered({"removeFromCartResume"}, {"ok"})'
        /\ ev'.op = "removeFromCart" => UNCHANGED cartVars
      ]_vars

\* the removal of i1 has succeeded on the cart page: its node is gone, that of
\* i2 is in place, and badge and total show what the response carried
C15_Witness ==
    /\ Answered({"removeFromCartResume"}, {"ok"})
    /\ cartItems = {"i2"}
    /\ ev.res.cart_count = 0
    /\ cartBadge = [text |-> 0, display |-> "none"]
    /\ cartTotal = <<ev.res.cart_total, "XAF">>

-----------------------------------------------------------------------------
(* C16: addToCart, updateOrderStatus and cancelOrder hide the loading        *)
(* indicator when their request finishes, whether the response says success  *)
(* = true or success = false or the transport failed; so whenever none of    *)
(* their requests is in flight the loading indicator is hidden.              *)
LoadingKinds == {"add", "status", "cancel"}
LoadingResumes == {"addToCartResume", "updateOrderStatusResume", "cancelOrderResume"}

C16_LoadingHidden ==
    /\ [][ Answered(LoadingResumes, {"ok", "fail", "throw"})' =>
              loading'.display = "none" ]_vars
    /\ []((\A r \in inflight : r.kind \notin LoadingKinds) => loading.display = "none")

\* the indicator was shown for a status update whose request then failed at
\* transport level, and is hidden again
C16_Witness ==
    /\ Answered({"updateOrderStatusResume"}, {"throw"})
    /\ \A r \in inflight : r.kind \notin LoadingKinds
    /\ loading = [present |-> TRUE, display |-> "none",
                  message |-> "Updating order status..."]

-----------------------------------------------------------------------------
(* C17: every POST request (cart add, update, remove, order status, order    *)
(* cancel) carries the X-CSRFToken header, and its value is the hidden       *)
(* field's value when the field is present and not empty, and the meta tag's *)
(* content otherwise (the empty string when there is no meta tag either).    *)
TokenOfPage ==
    IF csrfField # Undefined /\ csrfField # "" THEN csrfField
    ELSE IF csrfMeta # Undefined THEN csrfMeta
    ELSE ""

PostCalls == {"addToCart", "updateCartQuantity", "removeFromCart",
              "updateOrderStatus", "cancelOrder"}

C17_PostsCarryToken ==
    /\ \A r \in inflight : r.kind \in PostKinds => r.csrf = TokenOfPage
    /\ (ev.op \in PostCalls /\ ev.res = Called) =>
          \E r \in inflight : r.id = ev.req /\ r.kind \in PostKinds /\ r.csrf = TokenOfPage

\* a page whose hidden field is empty: the cancellation carries the meta tag's
\* token, as does a cart request sent before it
C17_Witness ==
    /\ csrfField = ""
    /\ csrfMeta = "tokM"
    /\ \E r \in Pending("cancel") : r.csrf = "tokM" /\ r.id = ev.req
    /\ \E r \in inflight : r.kind \in CartKinds /\ r.csrf = "tokM"

-----------------------------------------------------------------------------
(* C18: handling a successful order-stats response makes every element       *)
(* stat-<key> whose key the response has show the response's value for it;   *)
(* the stat elements whose key the response lacks keep what they showed; a   *)
(* key without an element creates none and changes nothing else of the page. *)
C18_StatsByKey ==
    [][ Answered({"updateOrderStatsResume"}, {"ok"})' =>
          /\ DOMAIN statText' = DOMAIN statText
          /\ \A k \in DOMAIN statText :
                statText'[k] = IF k \in DOMAIN ev'.res.stats THEN ev'.res.stats[k]
                               ELSE statText[k]
          /\ UNCHANGED <<elems, cartVars, searchVars, notifBadge, notifMenu, loading>>
      ]_vars

\* a page with #stat-pending and no #stat-total: a first response set pending
\* to 1, and a later one with the key total alone has left it
C18_Witness ==
    /\ Answered({"updateOrderStatsResume"}, {"ok"})
    /\ ev.req > 3
    /\ DOMAIN ev.res.stats = {"total"}
    /\ DOMAIN statText = {"pending"}
    /\ statText["pending"] = 1

-----------------------------------------------------------------------------
(* C19: while a request of addToCart, updateOrderStatus or cancelOrder is in *)
(* flight the loading indicator is visible, also when several of them        *)
(* overlap and one has completed before the others.                          *)
C19_LoadingWhileInFlight ==
    (\E r \in inflight : r.kind \in LoadingKinds) => loading.display = "block"

-----------------------------------------------------------------------------
(* C20, as claimed: once every search request issued has completed, the      *)
(* results panel reflects the query searchMenu was called with last: it is   *)
(* hidden if that query has fewer than 2 characters, and otherwise, if the   *)
(* query was answered, it is visible and shows the items of that answer,     *)
(* whatever the order in which the responses came.                           *)
HasPanel == "search-results" \in elems

ShowsLastFired ==
    IF Len(lastFired.query) < 2 THEN searchPanel.hidden
    ELSE /\ ~searchPanel.hidden
         /\ searchPanel.rows = lastFired.items

C20_PanelShowsLatestQuery ==
    (HasPanel /\ lastFired.panel # "none" /\ Pending("search") = {}
       /\ (Len(lastFired.query) >= 2 => lastFired.answered))
      => ShowsLastFired

(* C20, amended: the panel reflects the search step handled last.  The call  *)
(* of searchMenu with a query of fewer than 2 characters hides it and leaves *)
(* its rows; handling a successful search response makes it visible with the *)
(* items of that response, also when the response is that of an earlier      *)
(* query than the one called last; a failed search and every other step      *)
(* leave it as it is.  So the panel reflects the query called last exactly   *)
(* when the step that wrote the panel last was that query's.                 *)
C20_PanelShowsLastHandled ==
    /\ [][ /\ (HasPanel /\ Answered({"searchMenuResume"}, {"ok"})') =>
                  searchPanel' = [hidden |-> FALSE, rows |-> ev'.res.items,
                                  placeholder |-> Len(ev'.res.items) = 0]
           /\ (ev'.op = "searchMenu" /\ Len(inputValue) < 2) =>
                  searchPanel' = [searchPanel EXCEPT !.hidden = HasPanel \/ @]
           /\ searchPanel' # searchPanel =>
                  \/ Answered({"searchMenuResume"}, {"ok"})'
                  \/ ev'.op = "searchMenu" /\ Len(inputValue) < 2
         ]_vars
    /\ []((HasPanel /\ lastFired.panel = "own") => ShowsLastFired)

\* the query called last was of one character and hid the panel; the response
\* to the query before it has come since and the panel shows its items
C20_Witness ==
    /\ HasPanel
    /\ Len(lastFired.query) = 1
    /\ lastFired.panel = "other"
    /\ Answered({"searchMenuResume"}, {"ok"})
    /\ Pending("search") = {}
    /\ searchPanel = [hidden |-> FALSE, rows |-> <<"i2", "i1">>, placeholder |-> FALSE]

-----------------------------------------------------------------------------
(* C21: every step that writes the cart badge (a successful cart mutation,   *)
(* the outcome of a cart-count request) or the notification badge (a         *)
(* successful notifications response) leaves the badge visible if the count  *)
(* it shows is greater than 0 and hidden if it is not; no other step changes *)
(* a badge.                                                                  *)
VisibleIffPositive(badge) ==
    /\ badge.display \in {"inline", "none"}
    /\ badge.display = "inline" <=> badge.text > 0

CartBadgeWritten ==
    HasBadge /\ (Answered(CartResumes, {"ok"}) \/ ev.op = "fetchCartCountResume")

NotifBadgeWritten ==
    "notification-badge" \in elems /\ Answered({"loadNotificationsResume"}, {"ok"})

C21_BadgeVisibleIffPositive ==
    [][ /\ CartBadgeWritten' => VisibleIffPositive(cartBadge')
        /\ NotifBadgeWritten' => VisibleIffPositive(notifBadge')
        /\ cartBadge' # cartBadge => CartBadgeWritten'
        /\ notifBadge' # notifBadge => NotifBadgeWritten'
      ]_vars

\* a cart mutation has just written 0 to the cart badge, which is hidden,
\* while the notification badge, written by a poll, shows 2 and is visible
C21_Witness ==
    /\ Answered(CartResumes, {"ok"})
    /\ HasBadge
    /\ ev.res.cart_count = 0
    /\ cartBadge = [text |-> 0, display |-> "none"]
    /\ notifBadge = [text |-> 2, display |-> "inline"]

====
